---- MODULE Spec2Model ----
(***************************************************************************)
(* Consensus-mode selection layer of node/src/service.rs:                  *)
(*   BuildOnAccess<R>       a build-on-first-access cell                    *)
(*   WaitForAuraConsensus   authoring selector, shared through clones       *)
(*   Verifier               verification selector, exclusively owned        *)
(* The client's runtime-API probe (has_api) and the two consensus engines   *)
(* are external: the probe is a map from block hash to Result<bool, _>, an  *)
(* engine answers a call with any outcome of its result type.               *)
(***************************************************************************)
EXTENDS Integers, Sequences, FiniteSets, TLC

\* ------------------------------------------------------------------ bounds
MaxHash == 1        \* block hashes are 0..MaxHash
NumClones == 1      \* clones of the authoring selector besides the original
MaxCalls == 3       \* produce_candidate and verify calls started in a run

Hashes == 0..MaxHash
Tasks == 0..NumClones          \* task 0 holds the original selector
Ptrs == 0..NumClones           \* addresses an Arc allocation can take
NoTask == -1

\* A header is known by its own hash and the hash of its parent.  The blocks
\* form a chain: 0..MaxHash are imported (the client holds their state), block
\* MaxHash + 1 is not imported yet, and the parent hash of block 0 is no block.
Headers == {[hash |-> h, parent_hash |-> h - 1] : h \in 0..(MaxHash + 1)}
NoHeader == [hash |-> -2, parent_hash |-> -2]
\* authoring extends an imported block; the import queue verifies a block whose
\* parent is imported
ParentHeaders == {hd \in Headers : hd.hash \in Hashes}
IncomingHeaders == {hd \in Headers : hd.parent_hash \in Hashes}

VARIABLES
    client,                 \* per block hash, what has_api answers there
    aura_consensus,         \* per Arc address: Mutex<BuildOnAccess<engine>>
    relay_chain_consensus,  \* per Arc address: Mutex<engine>
    call,                   \* per task: its produce_candidate future
    runs,                   \* per Arc address: times the Aura factory was invoked
    aura_verifier,          \* Verifier.aura_verifier
    relay_chain_verifier,   \* Verifier.relay_chain_verifier
    vcall,                  \* the Verifier's verify future
    vruns,                  \* times the Aura verifier factory was invoked
    observed,               \* some produce_candidate probe has answered true
    vobserved,              \* some verify probe has answered true
    ncalls,                 \* calls started so far
    probes,                 \* has_api invocations made by the two selectors
    node                    \* the node start_node_impl starts, and what it last did

vars == <<client, aura_consensus, relay_chain_consensus, call, runs,
          aura_verifier, relay_chain_verifier, vcall, vruns,
          observed, vobserved, ncalls, probes, node>>

\* ------------------------------------------------- the capability probe
\* Result<bool, ApiError> of has_api
ApiResults == {[ok |-> TRUE, v |-> TRUE], [ok |-> TRUE, v |-> FALSE],
               [ok |-> FALSE, v |-> FALSE]}

\* has_api at a block the client does not hold is an error
has_api(block_id) ==
    IF block_id \in DOMAIN client THEN client[block_id] ELSE [ok |-> FALSE, v |-> FALSE]

unwrap_or_true(r, default) == IF r.ok THEN r.v ELSE TRUE
unwrap_or(r, default) == IF r.ok THEN r.v ELSE default

BlockIdHash(h) == h
hash(header) == header.hash
parent_hash(header) == header.parent_hash

\* ------------------------------------------------------- BuildOnAccess
Uninitialized(f) == [tag |-> "Uninitialized", f |-> f, r |-> 0]
Initialized(r) == [tag |-> "Initialized", f |-> FALSE, r |-> r]

\* get_mut on cell `self`.  fok: the factory returns (it panics otherwise);
\* val: the value it then returns.  The result carries the cell afterwards,
\* whether the call panicked, the reference returned, the number of factory
\* invocations and of loop iterations.
RECURSIVE get_mut_loop(_, _, _, _, _)
get_mut_loop(self, fok, val, n, iters) ==
    IF self.tag = "Uninitialized"
    THEN IF self.f
         THEN IF fok
              THEN get_mut_loop(Initialized(val), fok, val, n + 1, iters + 1)
              ELSE [cell |-> Uninitialized(FALSE), panic |-> TRUE, ret |-> 0,
                    runs |-> n + 1, iters |-> iters + 1]
         ELSE [cell |-> self, panic |-> TRUE, ret |-> 0,
               runs |-> n, iters |-> iters + 1]
    ELSE [cell |-> self, panic |-> FALSE, ret |-> self.r,
          runs |-> n, iters |-> iters + 1]

\* a get_mut that leaves the factory in place and never stores what it built
get_mut_rebuild(self, fok, val) ==
    IF self.tag = "Uninitialized" /\ self.f
    THEN IF fok
         THEN [cell |-> self, panic |-> FALSE, ret |-> val, runs |-> 1, iters |-> 1]
         ELSE [cell |-> self, panic |-> TRUE, ret |-> 0, runs |-> 1, iters |-> 1]
    ELSE get_mut_loop(self, fok, val, 0, 0)

\* a get_mut that moves the built value out of the cell when it hands it out
get_mut_takes(self, fok, val) ==
    LET g == get_mut_loop(self, fok, val, 0, 0) IN
    IF self.tag = "Initialized" THEN [g EXCEPT !.cell = Uninitialized(FALSE)] ELSE g

\* a get_mut that hands out a reference although nothing was built
get_mut_no_unwrap(self, fok, val) ==
    LET g == get_mut_loop(self, fok, val, 0, 0) IN
    IF g.panic THEN [g EXCEPT !.panic = FALSE] ELSE g

\* a get_mut that keeps the factory when it fails, to run it again next time
get_mut_retry(self, fok, val) ==
    LET g == get_mut_loop(self, fok, val, 0, 0) IN
    IF g.panic /\ g.runs > 0 THEN [g EXCEPT !.cell = Uninitialized(TRUE)] ELSE g

\* a get_mut whose loop goes round once more before it returns
get_mut_again(self, fok, val) ==
    LET g == get_mut_loop(self, fok, val, 0, 0) IN
    IF g.panic THEN g ELSE [g EXCEPT !.iters = @ + 1]

get_mut(self, fok, val) == get_mut_loop(self, fok, val, 0, 0)

\* ------------------------------------------------- engines (external)
\* Option<ParachainCandidate>
None == [some |-> FALSE, by |-> "-", parent |-> -1]
Some(engine, parent) == [some |-> TRUE, by |-> engine, parent |-> hash(parent)]

\* what ParachainConsensus::produce_candidate of an engine may answer
ProduceOutcomes(engine, parent) == {None, Some(engine, parent)}

\* Result<(BlockImportParams, Option<Vec<(CacheKeyId, Vec<u8>)>>), String>
Ok(params, cache) == [ok |-> TRUE, params |-> params, cache |-> cache, reason |-> "-"]
Err(reason) == [ok |-> FALSE, params |-> -1, cache |-> FALSE, reason |-> reason]
NoResult == [ok |-> FALSE, params |-> -1, cache |-> FALSE, reason |-> "pending"]

RejectReason(engine) == IF engine = "aura" THEN "aura: rejected" ELSE "relay: rejected"

\* what Verifier::verify of an engine may answer for a header
VerifyOutcomes(engine, header) ==
    {Ok(hash(header), FALSE), Ok(hash(header), TRUE), Err(RejectReason(engine))}

\* ------------------------------------------------ WaitForAuraConsensus
\* The selector as first constructed: its two Arcs are at address 0.
WaitForAuraConsensus == [aura_consensus |-> 0, relay_chain_consensus |-> 0]

\* a clone that allocates a cell of its own instead of sharing the Arc
clone_deep(self) ==
    [aura_consensus |-> self.aura_consensus + 1,
     relay_chain_consensus |-> self.relay_chain_consensus]

clone(self) ==
    [aura_consensus |-> self.aura_consensus,
     relay_chain_consensus |-> self.relay_chain_consensus]

\* the selector task t calls through: the original, or a clone of a clone ...
RECURSIVE Selector(_)
Selector(t) == IF t = 0 THEN WaitForAuraConsensus ELSE clone(Selector(t - 1))

Mutex(v) == [holder |-> NoTask, cell |-> v]

NoCall == [pc |-> "idle", parent |-> NoHeader, engine |-> "-", instance |-> 0,
           engine_out |-> None, ret |-> None, delegated |-> <<>>]

\* the probe of produce_candidate, at the hash of the parent header
ProduceProbeAtParentOfParent(parent) ==
    unwrap_or(has_api(BlockIdHash(parent_hash(parent))), FALSE)
ProduceProbeErrIsTrue(parent) ==
    unwrap_or_true(has_api(BlockIdHash(hash(parent))), FALSE)
ProduceProbeLatched(parent) ==
    observed \/ unwrap_or(has_api(BlockIdHash(hash(parent))), FALSE)

ProduceProbe(parent) == unwrap_or(has_api(BlockIdHash(hash(parent))), FALSE)

\* the value produce_candidate returns, given what the delegated engine returned
produce_return_or_none(engine_out) == None
produce_return(engine_out) == engine_out

\* a produce_candidate that skips the probe once the Aura engine is built
produce_candidate_latched(t, parent) ==
    /\ call[t].pc \in {"idle", "done", "cancelled"}
    /\ ncalls < MaxCalls
    /\ LET built == aura_consensus[0].cell.tag = "Initialized"
           capable == built \/ unwrap_or(has_api(BlockIdHash(hash(parent))), FALSE) IN
       /\ call' = [call EXCEPT ![t] =
                     [pc |-> IF capable THEN "aura_lock" ELSE "relay_lock",
                      parent |-> parent, engine |-> "-", instance |-> 0,
                      engine_out |-> None, ret |-> None, delegated |-> <<>>]]
       /\ observed' = (observed \/ capable)
       /\ probes' = IF built THEN probes ELSE probes + 1
    /\ ncalls' = ncalls + 1
    /\ UNCHANGED <<client, node, aura_consensus, relay_chain_consensus, runs,
                   aura_verifier, relay_chain_verifier, vcall, vruns, vobserved>>

\* a produce_candidate that unwraps the probe's answer instead of defaulting it
produce_candidate_unwrap(t, parent) ==
    /\ call[t].pc \in {"idle", "done", "cancelled"}
    /\ ncalls < MaxCalls
    /\ LET r == has_api(BlockIdHash(hash(parent))) IN
       /\ call' = [call EXCEPT ![t] =
                     [NoCall EXCEPT !.pc = IF ~r.ok THEN "panicked"
                                          ELSE IF r.v THEN "aura_lock" ELSE "relay_lock",
                                    !.parent = parent]]
       /\ observed' = (observed \/ (r.ok /\ r.v))
    /\ probes' = probes + 1
    /\ ncalls' = ncalls + 1
    /\ UNCHANGED <<client, node, aura_consensus, relay_chain_consensus, runs,
                   aura_verifier, relay_chain_verifier, vcall, vruns, vobserved>>

\* produce_candidate is called: the probe runs and the branch is taken, up to
\* the lock().await of that branch.
produce_candidate(t, parent) ==
    /\ call[t].pc \in {"idle", "done", "cancelled"}
    /\ ncalls < MaxCalls
    /\ LET capable == ProduceProbe(parent) IN
       /\ call' = [call EXCEPT ![t] =
                     [NoCall EXCEPT !.pc = IF capable THEN "aura_lock" ELSE "relay_lock",
                                    !.parent = parent]]
       /\ observed' = (observed \/ capable)
    /\ probes' = probes + 1
    /\ ncalls' = ncalls + 1
    /\ UNCHANGED <<client, node, aura_consensus, relay_chain_consensus, runs,
                   aura_verifier, relay_chain_verifier, vcall, vruns, vobserved>>

\* an AuraLocked whose guard is dropped before the engine is entered
AuraLockedNoGuard(t) ==
    /\ call[t].pc = "aura_lock"
    /\ LET p == Selector(t).aura_consensus
           m == aura_consensus[p] IN
       /\ m.holder = NoTask
       /\ \E fok \in BOOLEAN :
            LET g == get_mut(m.cell, fok, runs[p] + 1) IN
            /\ runs' = [runs EXCEPT ![p] = @ + g.runs]
            /\ aura_consensus' = [aura_consensus EXCEPT ![p] =
                                    [holder |-> NoTask, cell |-> g.cell]]
            /\ call' = IF g.panic
                       THEN [call EXCEPT ![t].pc = "panicked"]
                       ELSE [call EXCEPT ![t].pc = "aura_produce",
                                         ![t].engine = "aura",
                                         ![t].instance = g.ret,
                                         ![t].delegated = Append(@, "aura")]
    /\ UNCHANGED <<client, node, probes, relay_chain_consensus, aura_verifier,
                   relay_chain_verifier, vcall, vruns, observed, vobserved, ncalls>>

\* an AuraLocked that takes the relay-chain lock as well and keeps it
AuraLockedBoth(t) ==
    /\ call[t].pc = "aura_lock"
    /\ LET p == Selector(t).aura_consensus
           q == Selector(t).relay_chain_consensus
           m == aura_consensus[p] IN
       /\ m.holder = NoTask
       /\ relay_chain_consensus[q].holder = NoTask
       /\ \E fok \in BOOLEAN :
            LET g == get_mut(m.cell, fok, runs[p] + 1) IN
            /\ runs' = [runs EXCEPT ![p] = @ + g.runs]
            /\ IF g.panic
               THEN /\ aura_consensus' = [aura_consensus EXCEPT ![p] =
                                            [holder |-> NoTask, cell |-> g.cell]]
                    /\ call' = [call EXCEPT ![t].pc = "panicked"]
                    /\ UNCHANGED relay_chain_consensus
               ELSE /\ aura_consensus' = [aura_consensus EXCEPT ![p] =
                                            [holder |-> t, cell |-> g.cell]]
                    /\ relay_chain_consensus' =
                         [relay_chain_consensus EXCEPT ![q].holder = t]
                    /\ call' = [call EXCEPT ![t].pc = "aura_produce",
                                            ![t].engine = "aura",
                                            ![t].instance = g.ret,
                                            ![t].delegated = Append(@, "aura")]
    /\ UNCHANGED <<client, node, probes, aura_verifier,
                   relay_chain_verifier, vcall, vruns, observed, vobserved, ncalls>>

\* an AuraLocked of selectors that share one cell: what it builds becomes the
\* verifier's cell too
AuraLockedSharedCell(t) ==
    /\ call[t].pc = "aura_lock"
    /\ LET p == Selector(t).aura_consensus
           m == aura_consensus[p] IN
       /\ m.holder = NoTask
       /\ \E fok \in BOOLEAN :
            LET g == get_mut(m.cell, fok, runs[p] + 1) IN
            /\ runs' = [runs EXCEPT ![p] = @ + g.runs]
            /\ aura_verifier' = g.cell
            /\ IF g.panic
               THEN /\ aura_consensus' = [aura_consensus EXCEPT ![p] =
                                            [holder |-> NoTask, cell |-> g.cell]]
                    /\ call' = [call EXCEPT ![t].pc = "panicked"]
               ELSE /\ aura_consensus' = [aura_consensus EXCEPT ![p] =
                                            [holder |-> t, cell |-> g.cell]]
                    /\ call' = [call EXCEPT ![t].pc = "aura_produce",
                                            ![t].engine = "aura",
                                            ![t].instance = g.ret,
                                            ![t].delegated = Append(@, "aura")]
    /\ UNCHANGED <<client, node, probes, relay_chain_consensus,
                   relay_chain_verifier, vcall, vruns, observed, vobserved, ncalls>>

\* aura_consensus.lock().await resolves; get_mut() runs under the guard and the
\* engine's produce_candidate is entered.  A panic unwinds and drops the guard.
AuraLocked(t) ==
    /\ call[t].pc = "aura_lock"
    /\ LET p == Selector(t).aura_consensus
           m == aura_consensus[p] IN
       /\ m.holder = NoTask
       /\ \E fok \in BOOLEAN :
            LET g == get_mut(m.cell, fok, runs[p] + 1) IN
            /\ runs' = [runs EXCEPT ![p] = @ + g.runs]
            /\ IF g.panic
               THEN /\ aura_consensus' = [aura_consensus EXCEPT ![p] =
                                            [holder |-> NoTask, cell |-> g.cell]]
                    /\ call' = [call EXCEPT ![t].pc = "panicked"]
               ELSE /\ aura_consensus' = [aura_consensus EXCEPT ![p] =
                                            [holder |-> t, cell |-> g.cell]]
                    /\ call' = [call EXCEPT ![t].pc = "aura_produce",
                                            ![t].engine = "aura",
                                            ![t].instance = g.ret,
                                            ![t].delegated = Append(@, "aura")]
    /\ UNCHANGED <<client, node, probes, relay_chain_consensus, aura_verifier,
                   relay_chain_verifier, vcall, vruns, observed, vobserved, ncalls>>

\* an AuraReturns that turns to the relay-chain engine when the Aura engine
\* has no candidate
AuraReturnsFallsBack(t) ==
    /\ call[t].pc = "aura_produce"
    /\ LET p == Selector(t).aura_consensus IN
       /\ \E out \in ProduceOutcomes("aura", call[t].parent) :
            call' = IF out.some
                    THEN [call EXCEPT ![t].pc = "done",
                                      ![t].engine_out = out,
                                      ![t].ret = produce_return(out)]
                    ELSE [call EXCEPT ![t].pc = "relay_lock"]
       /\ aura_consensus' = [aura_consensus EXCEPT ![p].holder = NoTask]
    /\ UNCHANGED <<client, node, probes, relay_chain_consensus, runs, aura_verifier,
                   relay_chain_verifier, vcall, vruns, observed, vobserved, ncalls>>

\* the Aura engine's produce_candidate completes; the guard is dropped
AuraReturns(t) ==
    /\ call[t].pc = "aura_produce"
    /\ LET p == Selector(t).aura_consensus IN
       /\ \E out \in ProduceOutcomes("aura", call[t].parent) :
            call' = [call EXCEPT ![t].pc = "done",
                                 ![t].engine_out = out,
                                 ![t].ret = produce_return(out)]
       /\ aura_consensus' = [aura_consensus EXCEPT ![p].holder = NoTask]
    /\ UNCHANGED <<client, node, probes, relay_chain_consensus, runs, aura_verifier,
                   relay_chain_verifier, vcall, vruns, observed, vobserved, ncalls>>

\* a RelayLocked of a selector with one lock for both engines: it also waits
\* for the Aura lock to be free
RelayLockedOneLock(t) ==
    /\ call[t].pc = "relay_lock"
    /\ LET p == Selector(t).relay_chain_consensus IN
       /\ relay_chain_consensus[p].holder = NoTask
       /\ aura_consensus[Selector(t).aura_consensus].holder = NoTask
       /\ relay_chain_consensus' = [relay_chain_consensus EXCEPT ![p].holder = t]
    /\ call' = [call EXCEPT ![t].pc = "relay_produce", ![t].engine = "relay",
                            ![t].delegated = Append(@, "relay")]
    /\ UNCHANGED <<client, node, probes, aura_consensus, runs, aura_verifier,
                   relay_chain_verifier, vcall, vruns, observed, vobserved, ncalls>>

\* relay_chain_consensus.lock().await resolves and the engine is entered
RelayLocked(t) ==
    /\ call[t].pc = "relay_lock"
    /\ LET p == Selector(t).relay_chain_consensus IN
       /\ relay_chain_consensus[p].holder = NoTask
       /\ relay_chain_consensus' = [relay_chain_consensus EXCEPT ![p].holder = t]
    /\ call' = [call EXCEPT ![t].pc = "relay_produce", ![t].engine = "relay",
                            ![t].delegated = Append(@, "relay")]
    /\ UNCHANGED <<client, node, probes, aura_consensus, runs, aura_verifier,
                   relay_chain_verifier, vcall, vruns, observed, vobserved, ncalls>>

\* the relay-chain engine's produce_candidate completes; the guard is dropped
RelayReturns(t) ==
    /\ call[t].pc = "relay_produce"
    /\ LET p == Selector(t).relay_chain_consensus IN
       /\ \E out \in ProduceOutcomes("relay", call[t].parent) :
            call' = [call EXCEPT ![t].pc = "done",
                                 ![t].engine_out = out,
                                 ![t].ret = produce_return(out)]
       /\ relay_chain_consensus' = [relay_chain_consensus EXCEPT ![p].holder = NoTask]
    /\ UNCHANGED <<client, node, probes, aura_consensus, runs, aura_verifier,
                   relay_chain_verifier, vcall, vruns, observed, vobserved, ncalls>>

\* a Cancel that drops the future but leaks the guard it holds
CancelKeepsGuard(t) ==
    /\ call[t].pc \in {"aura_lock", "relay_lock", "aura_produce", "relay_produce"}
    /\ call' = [call EXCEPT ![t] = [NoCall EXCEPT !.pc = "cancelled"]]
    /\ UNCHANGED <<client, node, probes, aura_consensus, relay_chain_consensus, runs,
                   aura_verifier, relay_chain_verifier, vcall, vruns, observed,
                   vobserved, ncalls>>

\* the caller drops the future at one of its suspension points; a guard the
\* future holds is dropped with it
Cancel(t) ==
    /\ call[t].pc \in {"aura_lock", "relay_lock", "aura_produce", "relay_produce"}
    /\ LET pa == Selector(t).aura_consensus
           pr == Selector(t).relay_chain_consensus IN
       /\ aura_consensus' =
            IF call[t].pc = "aura_produce"
            THEN [aura_consensus EXCEPT ![pa].holder = NoTask] ELSE aura_consensus
       /\ relay_chain_consensus' =
            IF call[t].pc = "relay_produce"
            THEN [relay_chain_consensus EXCEPT ![pr].holder = NoTask]
            ELSE relay_chain_consensus
    /\ call' = [call EXCEPT ![t] = [NoCall EXCEPT !.pc = "cancelled"]]
    /\ UNCHANGED <<client, node, probes, runs, aura_verifier, relay_chain_verifier,
                   vcall, vruns, observed, vobserved, ncalls>>

\* ------------------------------------------------------------- Verifier
\* the verify future; pre is the cell as the call found it, iters the number
\* of iterations the loop of get_mut made in it
NoVCall == [pc |-> "idle", header |-> NoHeader, engine |-> "-", instance |-> 0,
            engine_out |-> NoResult, ret |-> NoResult,
            pre |-> Uninitialized(TRUE), iters |-> 0]

\* the probe of verify, at the parent hash of the header being verified
VerifyProbeAtHeader(header) == unwrap_or(has_api(BlockIdHash(hash(header))), FALSE)
VerifyProbeErrIsTrue(header) ==
    unwrap_or_true(has_api(BlockIdHash(parent_hash(header))), FALSE)
VerifyProbeLatched(header) ==
    vobserved \/ unwrap_or(has_api(BlockIdHash(parent_hash(header))), FALSE)

VerifyProbe(header) == unwrap_or(has_api(BlockIdHash(parent_hash(header))), FALSE)

\* the value verify returns, given what the delegated verifier returned
verify_return_swallow(header, engine_out) ==
    IF engine_out.ok THEN engine_out ELSE Ok(hash(header), FALSE)
verify_return_probe_err(header, engine_out) ==
    IF has_api(BlockIdHash(parent_hash(header))).ok
    THEN engine_out ELSE Err("probe failed")
verify_return(header, engine_out) == engine_out

\* a verify that can be entered while another verify call is still in flight
verify_shared(header) ==
    /\ vcall.pc \in {"idle", "done", "aura_verify", "relay_verify"}
    /\ ncalls < MaxCalls
    /\ LET capable == VerifyProbe(header)
           started == [NoVCall EXCEPT !.header = header, !.pre = aura_verifier] IN
       /\ vobserved' = (vobserved \/ capable)
       /\ IF capable
          THEN \E fok \in BOOLEAN :
                 LET g == get_mut(aura_verifier, fok, vruns + 1) IN
                 /\ aura_verifier' = g.cell
                 /\ vruns' = vruns + g.runs
                 /\ vcall' = IF g.panic
                             THEN [started EXCEPT !.pc = "panicked",
                                                  !.iters = g.iters]
                             ELSE [started EXCEPT !.pc = "aura_verify",
                                                  !.engine = "aura",
                                                  !.instance = g.ret,
                                                  !.iters = g.iters]
          ELSE /\ vcall' = [started EXCEPT !.pc = "relay_verify", !.engine = "relay"]
               /\ UNCHANGED <<aura_verifier, vruns>>
    /\ probes' = probes + 1
    /\ ncalls' = ncalls + 1
    /\ UNCHANGED <<client, node, aura_consensus, relay_chain_consensus, call, runs,
                   relay_chain_verifier, observed>>

\* verify is called: the probe runs, the branch is taken and the selected
\* verifier is entered (the Aura one through get_mut, which may panic).
verify(header) ==
    /\ vcall.pc \in {"idle", "done"}
    /\ ncalls < MaxCalls
    /\ LET capable == VerifyProbe(header)
           started == [NoVCall EXCEPT !.header = header, !.pre = aura_verifier] IN
       /\ vobserved' = (vobserved \/ capable)
       /\ IF capable
          THEN \E fok \in BOOLEAN :
                 LET g == get_mut(aura_verifier, fok, vruns + 1) IN
                 /\ aura_verifier' = g.cell
                 /\ vruns' = vruns + g.runs
                 /\ vcall' = IF g.panic
                             THEN [started EXCEPT !.pc = "panicked",
                                                  !.iters = g.iters]
                             ELSE [started EXCEPT !.pc = "aura_verify",
                                                  !.engine = "aura",
                                                  !.instance = g.ret,
                                                  !.iters = g.iters]
          ELSE /\ vcall' = [started EXCEPT !.pc = "relay_verify", !.engine = "relay"]
               /\ UNCHANGED <<aura_verifier, vruns>>
    /\ probes' = probes + 1
    /\ ncalls' = ncalls + 1
    /\ UNCHANGED <<client, node, aura_consensus, relay_chain_consensus, call, runs,
                   relay_chain_verifier, observed>>

\* a VerifyReturns that throws the built Aura verifier away when it rejects
VerifyReturnsResets ==
    /\ vcall.pc \in {"aura_verify", "relay_verify"}
    /\ \E out \in VerifyOutcomes(vcall.engine, vcall.header) :
         /\ vcall' = [vcall EXCEPT !.pc = "done",
                                   !.engine_out = out,
                                   !.ret = verify_return(vcall.header, out)]
         /\ aura_verifier' = IF out.ok THEN aura_verifier ELSE Uninitialized(FALSE)
    /\ UNCHANGED <<client, node, probes, aura_consensus, relay_chain_consensus, call, runs,
                   relay_chain_verifier, vruns, observed, vobserved, ncalls>>

\* the delegated verifier completes and verify returns
VerifyReturns ==
    /\ vcall.pc \in {"aura_verify", "relay_verify"}
    /\ \E out \in VerifyOutcomes(vcall.engine, vcall.header) :
         vcall' = [vcall EXCEPT !.pc = "done",
                                !.engine_out = out,
                                !.ret = verify_return(vcall.header, out)]
    /\ UNCHANGED <<client, node, probes, aura_consensus, relay_chain_consensus, call, runs,
                   aura_verifier, relay_chain_verifier, vruns, observed, vobserved,
                   ncalls>>

\* ----------------------------------------------------------- the node
\* What start_node_impl has wired: the ParachainConsensus handed to
\* start_collator, the verifier of the import queue built by new_partial, and
\* the last authoring and import the running node did.
NoNode == [pc |-> "init", validator |-> FALSE,
           parachain_consensus |-> "-", import_queue |-> "-",
           authored |-> [parent |-> NoHeader, engine |-> "-"],
           imported |-> [header |-> NoHeader, engine |-> "-"]]

\* new_partial: the import queue is cumulus_client_consensus_aura::import_queue,
\* whose verifier is the Aura verifier (the queue over Verifier is not built)
new_partial == "aura"

\* start_node_impl, validator branch: parachain_consensus is the result of
\* build_aura_consensus (the WaitForAuraConsensus branch is not built)
build_consensus == "aura"

\* the engine a wired component uses for a block, `capable` being what the
\* selector's probe would answer
EngineFor(wired, capable) ==
    IF wired = "selector" THEN (IF capable THEN "aura" ELSE "relay") ELSE wired

selector_vars == <<client, aura_consensus, relay_chain_consensus, call, runs,
                   aura_verifier, relay_chain_verifier, vcall, vruns,
                   observed, vobserved, ncalls, probes>>

\* start_node_impl runs: it fails for a light client or when one of its `?`
\* steps fails (new_partial, build_polkadot_full_node, slot_duration, ...),
\* and otherwise starts a collator (validator) or a full node.
start_node_impl(light, validator, ok) ==
    /\ node.pc = "init"
    /\ node' = IF light \/ ~ok
               THEN [node EXCEPT !.pc = "failed"]
               ELSE [node EXCEPT !.pc = "running",
                                 !.validator = validator,
                                 !.import_queue = new_partial,
                                 !.parachain_consensus =
                                     IF validator THEN build_consensus ELSE "-"]
    /\ UNCHANGED selector_vars

\* the collator's authoring loop calls parachain_consensus.produce_candidate
NodeAuthors(parent) ==
    /\ node.pc = "running" /\ node.validator
    /\ node' = [node EXCEPT !.authored =
                  [parent |-> parent,
                   engine |-> EngineFor(node.parachain_consensus, ProduceProbe(parent))]]
    /\ UNCHANGED selector_vars

\* the import queue verifies a received block with its verifier
NodeImports(header) ==
    /\ node.pc = "running"
    /\ node' = [node EXCEPT !.imported =
                  [header |-> header,
                   engine |-> EngineFor(node.import_queue, VerifyProbe(header))]]
    /\ UNCHANGED selector_vars

\* -------------------------------------------------------- specification
\* a construction that builds the Aura engines at once
InitEager ==
    /\ client \in [Hashes -> ApiResults]
    /\ aura_consensus = [p \in Ptrs |-> Mutex(Initialized(1))]
    /\ relay_chain_consensus = [p \in Ptrs |-> Mutex("relay")]
    /\ call = [t \in Tasks |-> NoCall]
    /\ runs = [p \in Ptrs |-> 1]
    /\ aura_verifier = Initialized(1)
    /\ relay_chain_verifier = "relay"
    /\ vcall = [NoVCall EXCEPT !.pre = Initialized(1)]
    /\ vruns = 1
    /\ observed = FALSE
    /\ vobserved = FALSE
    /\ ncalls = 0
    /\ probes = 0
    /\ node = NoNode

\* Both selectors are constructed with BuildOnAccess::Uninitialized(Some(factory))
\* and unlocked mutexes (the construction sites at service.rs:274-278 and
\* 561-565); the client's answers per block are any Result<bool, _>.
Init ==
    /\ client \in [Hashes -> ApiResults]
    /\ aura_consensus = [p \in Ptrs |-> Mutex(Uninitialized(TRUE))]
    /\ relay_chain_consensus = [p \in Ptrs |-> Mutex("relay")]
    /\ call = [t \in Tasks |-> NoCall]
    /\ runs = [p \in Ptrs |-> 0]
    /\ aura_verifier = Uninitialized(TRUE)
    /\ relay_chain_verifier = "relay"
    /\ vcall = NoVCall
    /\ vruns = 0
    /\ observed = FALSE
    /\ vobserved = FALSE
    /\ ncalls = 0
    /\ probes = 0
    /\ node = NoNode

Next ==
    \/ \E t \in Tasks, parent \in ParentHeaders : produce_candidate(t, parent)
    \/ \E t \in Tasks : AuraLocked(t)
    \/ \E t \in Tasks : AuraReturns(t)
    \/ \E t \in Tasks : RelayLocked(t)
    \/ \E t \in Tasks : RelayReturns(t)
    \/ \E t \in Tasks : Cancel(t)
    \/ \E header \in IncomingHeaders : verify(header)
    \/ VerifyReturns

Spec == Init /\ [][Next]_vars

\* the node as start_node starts it
NextNode ==
    \/ \E light, validator, ok \in BOOLEAN : start_node_impl(light, validator, ok)
    \/ \E parent \in ParentHeaders : NodeAuthors(parent)
    \/ \E header \in IncomingHeaders : NodeImports(header)

SpecNode == Init /\ [][NextNode]_vars

\* the authoring selector alone, under a fair executor: a task waiting at
\* lock().await for a lock that stays free is polled and takes it (dropping
\* the guard wakes a waiter), and an engine that was entered returns
NextAuthoring ==
    \/ \E t \in Tasks, parent \in ParentHeaders : produce_candidate(t, parent)
    \/ \E t \in Tasks : AuraLocked(t)
    \/ \E t \in Tasks : AuraReturns(t)
    \/ \E t \in Tasks : RelayLocked(t)
    \/ \E t \in Tasks : RelayReturns(t)
    \/ \E t \in Tasks : Cancel(t)

Fairness ==
    \A t \in Tasks :
      /\ WF_vars(AuraLocked(t))
      /\ WF_vars(RelayLocked(t))
      /\ WF_vars(AuraReturns(t))
      /\ WF_vars(RelayReturns(t))

SpecAuthoring == Init /\ [][NextAuthoring]_vars /\ Fairness

\* ================================================================ claims
\* capability as the client's state has it at a block hash
CapableAt(h) == h \in DOMAIN client /\ client[h].ok /\ client[h].v
ProbeErrsAt(h) == h \notin DOMAIN client \/ ~client[h].ok

AuraCell(t) == aura_consensus[Selector(t).aura_consensus].cell
Routed(t) == call[t].pc \in {"aura_lock", "aura_produce", "relay_lock",
                             "relay_produce", "done", "panicked"}
\* the branch a produce_candidate call took
RouteOf(t) ==
    IF call[t].pc \in {"aura_lock", "aura_produce", "panicked"} \/ call[t].engine = "aura"
    THEN "aura" ELSE "relay"
VRouted == vcall.pc \in {"aura_verify", "relay_verify", "done", "panicked"}
VRouteOf == IF vcall.pc = "panicked" \/ vcall.engine = "aura" THEN "aura" ELSE "relay"

\* C1: over any sequence of accesses a cell's factory is invoked at most once,
\* exactly once as soon as an access has returned, and every access that
\* returned handed out the one value the factory built and the cell stores.
C1_FactoryOnce ==
    /\ \A p \in Ptrs :
         /\ runs[p] <= 1
         /\ aura_consensus[p].cell.tag = "Initialized"
              => runs[p] = 1 /\ aura_consensus[p].cell.r = 1
    /\ vruns <= 1
    /\ aura_verifier.tag = "Initialized" => vruns = 1 /\ aura_verifier.r = 1
    /\ \A t \in Tasks :
         call[t].engine = "aura"
           => AuraCell(t).tag = "Initialized" /\ call[t].instance = AuraCell(t).r
    /\ vcall.engine = "aura"
         => aura_verifier.tag = "Initialized" /\ vcall.instance = aura_verifier.r

\* a verify call that found the cell already built and got the stored value
C1_Witness ==
    /\ vcall.pc = "done" /\ vcall.engine = "aura"
    /\ vcall.pre.tag = "Initialized" /\ vruns = 1

\* C2: every produce_candidate call takes the Aura branch exactly when the
\* client reports Aura capability at the hash of the call's own parent header;
\* the Aura branch delegates to the built Aura engine, the other branch to the
\* relay-chain engine.
C2_ProduceRoutes ==
    \A t \in Tasks :
      Routed(t) =>
        /\ RouteOf(t) = (IF CapableAt(hash(call[t].parent)) THEN "aura" ELSE "relay")
        /\ call[t].engine # "-" => call[t].engine = RouteOf(t)
        /\ call[t].engine = "aura" =>
             AuraCell(t).tag = "Initialized" /\ call[t].instance = AuraCell(t).r
        /\ call[t].pc = "done" =>
             call[t].engine_out \in ProduceOutcomes(RouteOf(t), call[t].parent)

\* one call has produced through the Aura engine, another through the relay one
C2_Witness ==
    \E t, u \in Tasks :
      /\ call[t].pc = "done" /\ call[t].engine = "aura" /\ call[t].ret.some
      /\ call[u].pc = "done" /\ call[u].engine = "relay" /\ call[u].ret.some

\* C3: every verify call routes by the capability at the parent hash of the
\* header being verified: Aura verifier when capable there, relay-chain verifier
\* otherwise, whatever the capability at the header's own hash.
C3_VerifyRoutes ==
    VRouted =>
      /\ VRouteOf = (IF CapableAt(parent_hash(vcall.header)) THEN "aura" ELSE "relay")
      /\ vcall.pc \in {"aura_verify", "relay_verify", "done"} => vcall.engine = VRouteOf
      /\ vcall.pc = "done" =>
           vcall.engine_out \in VerifyOutcomes(VRouteOf, vcall.header)

\* a block that is itself imported without Aura capability, with a capable
\* parent, verified by the Aura verifier
C3_Witness ==
    /\ vcall.pc = "done" /\ vcall.engine = "aura"
    /\ CapableAt(parent_hash(vcall.header))
    /\ hash(vcall.header) \in Hashes /\ ~CapableAt(hash(vcall.header))

\* C4: a produce_candidate call on a parent with hash R and a verify call on a
\* header with parent hash R take the same branch.
C4_ModeAgreement ==
    \A t \in Tasks :
      (Routed(t) /\ VRouted /\ hash(call[t].parent) = parent_hash(vcall.header))
        => RouteOf(t) = VRouteOf

\* a block authored by the Aura engine on R and a block on R verified by the
\* Aura verifier; the same through the relay-chain engines on an R whose probe
\* fails
C4_Witness ==
    \E t \in Tasks :
      /\ call[t].pc = "done" /\ vcall.pc = "done"
      /\ hash(call[t].parent) = parent_hash(vcall.header)
      /\ call[t].engine = "aura" /\ vcall.engine = "aura"

\* C5: over the original selector and its clones the Aura factory runs at most
\* once in total, every call inside the Aura engine went through the same cell
\* and uses the one instance built, and exactly one factory run has happened
\* once any call is inside.
C5_SingleConstruction ==
    /\ \A p, q \in Ptrs : p # q => runs[p] + runs[q] <= 1
    /\ \A t, u \in Tasks :
         (call[t].engine = "aura" /\ call[u].engine = "aura")
           => /\ Selector(t).aura_consensus = Selector(u).aura_consensus
              /\ call[t].instance = call[u].instance
    /\ \A t \in Tasks :
         call[t].engine = "aura" => runs[Selector(t).aura_consensus] = 1

\* two first calls in flight at once: one built the engine and is inside it,
\* the other waits for the lock
C5_Witness ==
    /\ ncalls = 2
    /\ call[0].pc = "aura_produce" /\ call[1].pc = "aura_lock"
    /\ runs[0] = 1

\* a produce_candidate call is started by task t in this step
StartsCall(t) ==
    /\ call[t].pc \in {"idle", "done", "cancelled"}
    /\ call'[t].pc \in {"aura_lock", "relay_lock"}
\* a verify call is started in this step
StartsVerify ==
    /\ vcall.pc \in {"idle", "done"}
    /\ vcall'.pc \in {"aura_verify", "relay_verify", "panicked"}

\* C6 as stated: once a selector has observed capability=true, every later
\* call takes the Aura branch, whatever its own probe reports.
C6_Original ==
    [][/\ \A t \in Tasks : (observed /\ StartsCall(t)) => call'[t].pc = "aura_lock"
       /\ (vobserved /\ StartsVerify) => vcall'.pc # "relay_verify"]_vars

\* C6 amended: once built, the Aura engine of a selector stays built with the
\* same instance, but a call started after capability=true was observed still
\* takes the branch its own probe selects: Aura when the client reports the
\* capability at that call's parent, relay-chain when it reports false or errs.
C6_Amended ==
    [][/\ \A t \in Tasks :
            (observed /\ StartsCall(t))
              => (call'[t].pc = "aura_lock" <=> CapableAt(hash(call'[t].parent)))
       /\ (vobserved /\ StartsVerify)
            => (vcall'.pc # "relay_verify" <=> CapableAt(parent_hash(vcall'.header)))
       /\ \A p \in Ptrs :
            aura_consensus[p].cell.tag = "Initialized"
              => aura_consensus'[p].cell = aura_consensus[p].cell
       /\ aura_verifier.tag = "Initialized" => aura_verifier' = aura_verifier]_vars

\* with the Aura engine built, a later call is inside the relay-chain engine
C6_Witness ==
    /\ observed /\ aura_consensus[0].cell.tag = "Initialized"
    /\ \E t \in Tasks : call[t].pc = "relay_produce"

\* C7: a call whose probe errs takes the relay-chain branch: it never panics,
\* and what it returns is an answer of the relay-chain engine.
C7_ProbeErrFallsBack ==
    /\ \A t \in Tasks :
         (Routed(t) /\ ProbeErrsAt(hash(call[t].parent)))
           => /\ call[t].pc \in {"relay_lock", "relay_produce", "done"}
              /\ call[t].engine \in {"-", "relay"}
              /\ call[t].pc = "done"
                   => call[t].ret \in ProduceOutcomes("relay", call[t].parent)
    /\ (VRouted /\ ProbeErrsAt(parent_hash(vcall.header)))
         => /\ vcall.pc \in {"relay_verify", "done"}
            /\ vcall.engine = "relay"
            /\ vcall.pc = "done" => vcall.ret \in VerifyOutcomes("relay", vcall.header)

\* both a produce_candidate and a verify whose probe erred have returned
C7_Witness ==
    /\ \E t \in Tasks : call[t].pc = "done" /\ ProbeErrsAt(hash(call[t].parent))
    /\ vcall.pc = "done" /\ ProbeErrsAt(parent_hash(vcall.header))

\* C8 as stated: a verify whose probe erred returns Err(reason).
C8_Original ==
    (vcall.pc = "done" /\ ProbeErrsAt(parent_hash(vcall.header))) => ~vcall.ret.ok

\* C8 amended: a verify whose probe erred does not surface that failure: it
\* returns what the relay-chain verifier returned for the block, success
\* included, and an Err it returns carries the relay-chain verifier's reason.
C8_Amended ==
    (vcall.pc = "done" /\ ProbeErrsAt(parent_hash(vcall.header)))
      => /\ vcall.engine = "relay"
         /\ vcall.ret = vcall.engine_out
         /\ ~vcall.ret.ok => vcall.ret.reason = RejectReason("relay")

\* a verify whose probe erred has accepted the block
C8_Witness ==
    vcall.pc = "done" /\ ProbeErrsAt(parent_hash(vcall.header)) /\ vcall.ret.ok

\* C9: what verify returns is what the delegated verifier returned: the same
\* Err(reason), or the same Ok with the same parameters and cache entries.
C9_VerifyVerbatim ==
    vcall.pc = "done"
      => /\ vcall.ret = vcall.engine_out
         /\ vcall.ret.ok => vcall.ret.params = hash(vcall.header)
         /\ ~vcall.ret.ok => vcall.ret.reason = RejectReason(vcall.engine)

\* the Aura verifier has rejected a block and verify returned its reason
C9_Witness ==
    vcall.pc = "done" /\ vcall.engine = "aura" /\ ~vcall.ret.ok

\* C10 as stated: a verify at a capable parent that the Aura verifier rejects
\* returns the failure and leaves the lazy cell and both verifiers as they were
\* before the call.
C10_Original ==
    (vcall.pc = "done" /\ vcall.engine = "aura" /\ ~vcall.ret.ok)
      => /\ vcall.ret = Err(RejectReason("aura"))
         /\ aura_verifier = vcall.pre
         /\ relay_chain_verifier = "relay"

\* C10 amended: such a verify returns the Aura verifier's failure and leaves
\* the relay-chain verifier as it was; the lazy cell is as before the call when
\* it was Initialized before, and when the call was the first Aura-mode call
\* the cell has gone from Uninitialized with its factory to Initialized with
\* the verifier this call built.
C10_Amended ==
    (vcall.pc = "done" /\ vcall.engine = "aura" /\ ~vcall.ret.ok)
      => /\ vcall.ret = Err(RejectReason("aura"))
         /\ relay_chain_verifier = "relay"
         /\ vcall.pre.tag = "Initialized" => aura_verifier = vcall.pre
         /\ vcall.pre.tag = "Uninitialized"
              => vcall.pre.f /\ aura_verifier = Initialized(vcall.instance)

\* the Aura verifier, built by an earlier call, has rejected a block
C10_Witness ==
    /\ vcall.pc = "done" /\ vcall.engine = "aura" /\ ~vcall.ret.ok
    /\ vcall.pre.tag = "Initialized"

\* C11: in the started node authoring and import go through the selectors, so
\* the engine that authors or verifies a block is the one the capability at
\* its parent selects: the relay-chain engine on a parent without Aura
\* capability, the Aura engine on a capable parent.
C11_NodeEngines ==
    /\ node.authored.engine # "-" =>
          node.authored.engine =
            (IF CapableAt(hash(node.authored.parent)) THEN "aura" ELSE "relay")
    /\ node.imported.engine # "-" =>
          node.imported.engine =
            (IF CapableAt(parent_hash(node.imported.header)) THEN "aura" ELSE "relay")

\* C12: what produce_candidate returns is what the delegated engine returned:
\* the same candidate, or None when the engine had none, and a candidate
\* returned was made by the engine the call delegated to.
C12_ProduceVerbatim ==
    \A t \in Tasks :
      call[t].pc = "done"
        => /\ call[t].ret = call[t].engine_out
           /\ call[t].ret \in ProduceOutcomes(call[t].engine, call[t].parent)
           /\ call[t].ret.some => call[t].ret.by = call[t].engine

\* the Aura engine had no candidate and the call returned None, while another
\* call returned a candidate
C12_Witness ==
    \E t, u \in Tasks :
      /\ call[t].pc = "done" /\ call[t].engine = "aura" /\ call[t].ret = None
      /\ call[u].pc = "done" /\ call[u].ret.some

\* C13: a cell that is Initialized stays Initialized with the same value in
\* every step, a cell changes its tag only from Uninitialized to Initialized,
\* and an access to an Initialized cell returns the stored value and runs no
\* factory.
C13_CellIrreversible ==
    [][/\ \A p \in Ptrs :
            /\ aura_consensus[p].cell.tag = "Initialized"
                 => /\ aura_consensus'[p].cell = aura_consensus[p].cell
                    /\ runs'[p] = runs[p]
            /\ aura_consensus'[p].cell.tag = "Uninitialized"
                 => aura_consensus[p].cell.tag = "Uninitialized"
       /\ aura_verifier.tag = "Initialized"
            => aura_verifier' = aura_verifier /\ vruns' = vruns
       /\ aura_verifier'.tag = "Uninitialized" => aura_verifier.tag = "Uninitialized"
       /\ \A t \in Tasks :
            (AuraCell(t).tag = "Initialized" /\ call[t].pc = "aura_lock"
               /\ call'[t].pc \notin {"aura_lock", "cancelled"})
              => call'[t].pc = "aura_produce" /\ call'[t].instance = AuraCell(t).r]_vars

\* two calls have gone through the cell, the second finding it Initialized
C13_Witness ==
    /\ call[0].pc = "done" /\ call[0].engine = "aura"
    /\ call[1].pc = "done" /\ call[1].engine = "aura"
    /\ runs[0] = 1 /\ aura_consensus[0].cell = Initialized(1)

\* C14: a produce_candidate call enters the produce of at most one engine, and
\* a call that is inside an engine or has returned has entered exactly one,
\* exactly once.
C14_ExactlyOneEngine ==
    \A t \in Tasks :
      /\ Len(call[t].delegated) <= 1
      /\ call[t].pc \in {"aura_produce", "relay_produce", "done"}
           => Len(call[t].delegated) = 1 /\ call[t].delegated[1] = call[t].engine
      /\ call[t].pc \in {"aura_lock", "relay_lock"} => call[t].delegated = <<>>

\* one call returned after one Aura produce, another after one relay produce
C14_Witness ==
    \E t, u \in Tasks :
      /\ call[t].pc = "done" /\ call[t].delegated = <<"aura">>
      /\ call[u].pc = "done" /\ call[u].delegated = <<"relay">>

\* C15: a call is inside the Aura build-then-delegate section exactly while it
\* holds the lock of the Aura cell, so no two calls are inside it at once.
C15_AuraSerialized ==
    /\ \A t \in Tasks :
         call[t].pc = "aura_produce"
           <=> aura_consensus[Selector(t).aura_consensus].holder = t
    /\ \A t, u \in Tasks :
         (t # u /\ call[t].pc = "aura_produce") => call[u].pc # "aura_produce"
    /\ \A p \in Ptrs : aura_consensus[p].holder \in Tasks \cup {NoTask}

\* one call is inside the Aura engine of an already built cell, holding the
\* lock, and another waits for it
C15_Witness ==
    /\ call[1].pc = "aura_produce" /\ call[0].pc = "aura_lock"
    /\ aura_consensus[0].holder = 1
    /\ ncalls = 3

\* C16: a call that is inside an Aura engine or verifier runs on the value
\* stored in an Initialized cell, built by the one factory run that completed.
C16_OnlyBuiltEngine ==
    /\ \A t \in Tasks :
         (call[t].pc = "aura_produce" \/ call[t].engine = "aura")
           => /\ AuraCell(t) = Initialized(call[t].instance)
              /\ call[t].instance >= 1
              /\ runs[Selector(t).aura_consensus] = 1
    /\ (vcall.pc = "aura_verify" \/ vcall.engine = "aura")
         => /\ aura_verifier = Initialized(vcall.instance)
            /\ vcall.instance >= 1
            /\ vruns = 1

\* an authoring call and a verify call are inside their Aura engines at once
C16_Witness ==
    /\ \E t \in Tasks : call[t].pc = "aura_produce"
    /\ vcall.pc = "aura_verify"

\* C17: no factory has run before a probe answered true: none at construction,
\* none while no probe of that selector has answered true, and when no block
\* has the capability both cells stay Uninitialized with their factory.
C17_FactoryNotBeforeNeeded ==
    /\ ncalls = 0 => vruns = 0 /\ \A p \in Ptrs : runs[p] = 0
    /\ \A p \in Ptrs : runs[p] > 0 => observed /\ \E h \in Hashes : CapableAt(h)
    /\ vruns > 0 => vobserved /\ \E h \in Hashes : CapableAt(h)
    /\ ~observed => \A p \in Ptrs : aura_consensus[p].cell = Uninitialized(TRUE)
    /\ ~vobserved => aura_verifier = Uninitialized(TRUE)
    /\ (\A h \in Hashes : ~CapableAt(h))
         => /\ \A p \in Ptrs : aura_consensus[p].cell = Uninitialized(TRUE)
            /\ aura_verifier = Uninitialized(TRUE)

\* calls of both selectors have returned with no block capable, one probe
\* having erred
C17_Witness ==
    /\ \A h \in Hashes : ~CapableAt(h)
    /\ \E h \in Hashes : ProbeErrsAt(h)
    /\ \E t \in Tasks : call[t].pc = "done"
    /\ vcall.pc = "done"

\* C18: two produce_candidate calls with the same parent hash take the same
\* branch, whatever was called, built or probed between them.
C18_NoMemory ==
    \A t, u \in Tasks :
      (Routed(t) /\ Routed(u) /\ hash(call[t].parent) = hash(call[u].parent))
        => RouteOf(t) = RouteOf(u)

\* a call on R went to the relay-chain engine, the Aura engine was then built
\* for another parent, and a later call on R is in the relay-chain engine again
C18_Witness ==
    /\ ncalls = 3
    /\ aura_consensus[0].cell.tag = "Initialized"
    /\ call[0].pc = "done" /\ call[0].engine = "relay"
    /\ call[1].pc = "relay_produce"
    /\ hash(call[1].parent) = hash(call[0].parent)

\* C19 as stated: once the Aura engine of a selector is built, a later call of
\* that selector makes no probe.
C19_Original ==
    [][/\ \A t \in Tasks :
            (AuraCell(t).tag = "Initialized" /\ StartsCall(t)) => probes' = probes
       /\ (aura_verifier.tag = "Initialized" /\ StartsVerify) => probes' = probes]_vars

\* C19 amended: with its Aura engine built, a selector still makes one probe in
\* every later produce_candidate or verify call, and the call takes the branch
\* that probe selects.
C19_Amended ==
    [][/\ \A t \in Tasks :
            (AuraCell(t).tag = "Initialized" /\ StartsCall(t))
              => /\ probes' = probes + 1
                 /\ call'[t].pc = "aura_lock" <=> CapableAt(hash(call'[t].parent))
       /\ (aura_verifier.tag = "Initialized" /\ StartsVerify)
            => /\ probes' = probes + 1
               /\ vcall'.pc # "relay_verify" <=> CapableAt(parent_hash(vcall'.header))]_vars

\* a verify started with the Aura verifier built has probed and gone to the
\* relay-chain verifier
C19_Witness ==
    vcall.pre.tag = "Initialized" /\ vcall.pc = "relay_verify" /\ probes >= 2

\* C20: a cell's factory is invoked at most once, also when it panics: a cell
\* left Uninitialized without its factory has seen exactly one factory run,
\* and no call is inside an Aura engine through it (an access to it panics).
C20_FactoryAttemptedOnce ==
    /\ \A p \in Ptrs :
         /\ runs[p] <= 1
         /\ aura_consensus[p].cell = Uninitialized(FALSE)
              => /\ runs[p] = 1
                 /\ \A t \in Tasks :
                      Selector(t).aura_consensus = p
                        => call[t].pc # "aura_produce" /\ call[t].engine # "aura"
    /\ vruns <= 1
    /\ aura_verifier = Uninitialized(FALSE) => vruns = 1 /\ vcall.pc = "panicked"

\* the factory panicked under one call and a later call panicked in turn
C20_Witness ==
    /\ aura_consensus[0].cell = Uninitialized(FALSE)
    /\ call[0].pc = "panicked" /\ call[1].pc = "panicked"
    /\ runs[0] = 1

\* C21: only a failed engine construction is fatal.  A call has panicked only
\* on a capable parent and through a cell whose one factory run failed, for
\* whatever the probe answered (true, false, error) and the delegated engine
\* returned; every call that returned handed back a candidate or none, accepted
\* parameters or a failure reason.
C21_OnlyConstructionFatal ==
    /\ \A t \in Tasks :
         /\ call[t].pc = "panicked"
              => /\ AuraCell(t) = Uninitialized(FALSE)
                 /\ runs[Selector(t).aura_consensus] = 1
                 /\ CapableAt(hash(call[t].parent))
         /\ call[t].pc = "done"
              => call[t].ret \in ProduceOutcomes(call[t].engine, call[t].parent)
    /\ vcall.pc = "panicked"
         => /\ aura_verifier = Uninitialized(FALSE)
            /\ vruns = 1
            /\ CapableAt(parent_hash(vcall.header))
    /\ vcall.pc = "done"
         => vcall.ret \in VerifyOutcomes(vcall.engine, vcall.header)

\* with the factory having succeeded: a call whose probe erred has returned,
\* the Aura engine has returned no candidate to another, and a verify has
\* returned a failure reason
C21_Witness ==
    /\ \E t, u \in Tasks :
         /\ call[t].pc = "done" /\ ProbeErrsAt(hash(call[t].parent))
         /\ call[u].pc = "done" /\ call[u].engine = "aura" /\ ~call[u].ret.some
         /\ AuraCell(u).tag = "Initialized"
    /\ vcall.pc = "done" /\ ~vcall.ret.ok
    /\ aura_verifier # Uninitialized(FALSE)

\* a value is a Mutex around a cell, as aura_consensus holds one
IsMutex(m) == DOMAIN m = {"holder", "cell"}
\* a verify call is entered in this step
VerifyEntered == probes' # probes /\ call' = call

\* C22 as stated: the verifier's factory runs at most once, and a verify call
\* inside the build-then-delegate step holds a mutual-exclusion lock wrapped
\* around the verifier's cell.
C22_Original ==
    /\ vruns <= 1
    /\ vcall.pc = "aura_verify"
         => IsMutex(aura_verifier) /\ aura_verifier.holder # NoTask

\* C22 amended: the verifier's factory runs at most once; its cell is owned by
\* the Verifier without a lock and changes only in a step that enters verify;
\* verify takes the Verifier by exclusive reference, so a verify call is
\* entered only when no other is in flight, and no two are inside the
\* build-then-delegate step at once.
C22_Amended ==
    [][/\ vruns' <= 1
       /\ ~IsMutex(aura_verifier')
       /\ aura_verifier' # aura_verifier => VerifyEntered
       /\ VerifyEntered => vcall.pc \in {"idle", "done"}]_vars

\* a second verify call is inside the Aura verifier, the first having built it
C22_Witness ==
    /\ vcall.pc = "aura_verify" /\ vcall.pre.tag = "Initialized"
    /\ vruns = 1 /\ probes >= 2

\* task t's produce_candidate future is dropped in this step
Cancels(t) ==
    /\ call[t].pc \in {"aura_lock", "relay_lock", "aura_produce", "relay_produce"}
    /\ call'[t].pc = "cancelled"
\* after the step no lock is held by task t, and every held lock is held by a
\* call that is inside the engine behind it
NoDeadGuard(t) ==
    /\ \A p \in Ptrs :
         /\ aura_consensus'[p].holder # t
         /\ relay_chain_consensus'[p].holder # t
    /\ \A p \in Ptrs, u \in Tasks :
         /\ aura_consensus'[p].holder = u => call'[u].pc = "aura_produce"
         /\ relay_chain_consensus'[p].holder = u => call'[u].pc = "relay_produce"

\* C23 as stated: after a produce_candidate future is dropped at a suspension
\* point its locks are released and its selector's cell is Uninitialized with
\* its factory or Initialized.
C23_Original ==
    [][\A t \in Tasks :
         Cancels(t) =>
           /\ NoDeadGuard(t)
           /\ LET c == aura_consensus'[Selector(t).aura_consensus].cell IN
                c = Uninitialized(TRUE) \/ c.tag = "Initialized"]_vars

\* C23 amended: dropping a produce_candidate future at a suspension point
\* releases the lock it held and leaves every cell and factory count as they
\* were: the cell is Uninitialized with its factory, or Initialized, or - only
\* after a factory run that panicked in an earlier call - Uninitialized without
\* its factory.
C23_Amended ==
    [][\A t \in Tasks :
         Cancels(t) =>
           /\ NoDeadGuard(t)
           /\ runs' = runs
           /\ \A p \in Ptrs :
                /\ aura_consensus'[p].cell = aura_consensus[p].cell
                /\ relay_chain_consensus'[p].cell = relay_chain_consensus[p].cell
                /\ \/ aura_consensus'[p].cell = Uninitialized(TRUE)
                   \/ aura_consensus'[p].cell.tag = "Initialized"
                   \/ aura_consensus'[p].cell = Uninitialized(FALSE) /\ runs[p] = 1]_vars

\* a call was dropped and another task's later call is inside the built Aura
\* engine, holding the lock
C23_Witness ==
    /\ call[0].pc = "cancelled" /\ call[1].pc = "aura_produce"
    /\ aura_consensus[0].holder = 1
    /\ aura_consensus[0].cell.tag = "Initialized"
    /\ ncalls = 2

\* the locks task t holds
LocksHeld(t) ==
    {<<"aura", p>> : p \in {q \in Ptrs : aura_consensus[q].holder = t}}
      \cup {<<"relay", p>> : p \in {q \in Ptrs : relay_chain_consensus[q].holder = t}}
InFlight(t) == call[t].pc \in {"aura_lock", "relay_lock", "aura_produce", "relay_produce"}

C25_SeparateLocks ==
    /\ \A t \in Tasks :
         (call[t].pc = "relay_lock" /\ \A u \in Tasks : call[u].pc # "relay_produce")
           => ENABLED RelayLocked(t)
    /\ \A t \in Tasks :
         call[t].pc = "relay_produce"
           <=> relay_chain_consensus[Selector(t).relay_chain_consensus].holder = t
    /\ \A t, u \in Tasks :
         (t # u /\ call[t].pc = "relay_produce") => call[u].pc # "relay_produce"
    /\ \A t, u \in Tasks :
         (call[t].pc = "relay_produce" /\ call[u].pc = "relay_lock")
           => ~ENABLED RelayLocked(u)

\* the first Aura-mode call has built the engine and is inside it while a
\* relay-mode call is inside the relay-chain engine
C25_Witness ==
    /\ \E t, u \in Tasks :
         /\ call[t].pc = "aura_produce" /\ call[u].pc = "relay_produce"
    /\ runs[0] = 1 /\ ncalls = 2

\* C26: the two selectors own independent cells.  A step that changes an
\* authoring cell or its factory count is a step of a produce_candidate call
\* and leaves the verifier's cell, factory count and call as they are; a step
\* that changes the verifier's cell or factory count is a step of a verify call
\* and leaves the authoring cells, their factory counts and calls as they are;
\* each of the two factories runs at most once.
C26_IndependentCells ==
    [][/\ (aura_consensus' # aura_consensus \/ runs' # runs)
            => /\ aura_verifier' = aura_verifier /\ vruns' = vruns /\ vcall' = vcall
               /\ call' # call
       /\ (aura_verifier' # aura_verifier \/ vruns' # vruns)
            => /\ aura_consensus' = aura_consensus /\ runs' = runs /\ call' = call
               /\ vcall' # vcall
       /\ vruns' <= 1
       /\ \A p, q \in Ptrs : runs'[p] <= 1 /\ (p # q => runs'[p] + runs'[q] <= 1)]_vars

\* the authoring engine is built and in use while the verifier, whose calls
\* went to the relay-chain verifier, still holds its factory
C26_Witness ==
    /\ aura_consensus[0].cell.tag = "Initialized" /\ runs[0] = 1
    /\ aura_verifier = Uninitialized(TRUE) /\ vruns = 0
    /\ vcall.pc = "done"
    /\ \E t \in Tasks : call[t].pc = "done" /\ call[t].engine = "aura"

\* C27: the loop of get_mut makes at most two iterations: two when it builds
\* from Uninitialized and the factory returns, one when the cell is already
\* Initialized (and then no factory runs); it never goes round again after
\* that.  Checked on the accesses verify made and on an access to every
\* authoring cell, for a factory that returns and for one that panics.
C27_LoopBound ==
    /\ vcall.iters <= 2
    /\ vcall.engine = "aura"
         => vcall.iters = (IF vcall.pre.tag = "Initialized" THEN 1 ELSE 2)
    /\ vcall.engine = "relay" => vcall.iters = 0
    /\ \A p \in Ptrs, fok \in BOOLEAN :
         LET self == aura_consensus[p].cell
             g == get_mut(self, fok, runs[p] + 1) IN
         /\ g.iters >= 1 /\ g.iters <= 2
         /\ self.tag = "Initialized"
              => g.iters = 1 /\ ~g.panic /\ g.runs = 0 /\ g.cell = self
         /\ (self.tag = "Uninitialized" /\ ~g.panic)
              => g.iters = 2 /\ g.runs = 1 /\ g.cell.tag = "Initialized"
         /\ g.panic => g.iters = 1

\* verify has built its cell in two iterations in an earlier call and has
\* reached it in one iteration in the call that just returned
C27_Witness ==
    /\ vcall.pc = "done" /\ vcall.engine = "aura"
    /\ vcall.pre.tag = "Initialized" /\ vcall.iters = 1
    /\ \E p \in Ptrs : aura_consensus[p].cell.tag = "Initialized"

====
